---- MODULE Spec2Model ----
(***************************************************************************)
(* A model of three programs of the repository:                            *)
(*   Week 1/minesweeper/minesweeper.py   Minesweeper, Sentence,            *)
(*                                       MinesweeperAI                     *)
(*   Week 0/tictactoe/tictactoe.py       the board functions               *)
(*   Week 2/pagerank/pagerank.py         sample_pagerank                   *)
(* A cell (i, j) of the Python code is the tuple <<i, j>>; a Sentence is   *)
(* the record [cells, count]; the list self.knowledge is a sequence.       *)
(***************************************************************************)
EXTENDS Integers, Sequences, FiniteSets, TLC

VARIABLES
    height, width,      \* Minesweeper.height / width = MinesweeperAI.height / width
    board,              \* Minesweeper.mines: the cells that hold a mine
    moves_made,         \* MinesweeperAI.moves_made
    mines,              \* MinesweeperAI.mines
    safes,              \* MinesweeperAI.safes
    knowledge,          \* MinesweeperAI.knowledge
    pc,                 \* "idle", or "loop" inside the while loop of add_knowledge
    call,               \* the arguments [cell, count] of the current / last add_knowledge
    pass_start,         \* knowledge as it was when the while loop was entered
    sweeps,             \* iterations of the while loop in the current / last call
    last,               \* the operation that ran last
    ret                 \* the value the last move query returned

msvars == <<height, width, board, moves_made, mines, safes, knowledge, pc,
            call, pass_start, sweeps, last, ret>>

VARIABLE
    ttt                 \* tictactoe: the board, three rows of three squares

VARIABLES
    corpus,             \* sample_pagerank: page -> the pages it links to
    damping_factor,     \* in hundredths
    n,                  \* the number of samples asked for
    range_i,            \* the loop variable i of "for i in range(1, n)"
    sample,             \* the current page
    counts,             \* page -> number of visits
    pagerank,           \* the returned dictionary, as page -> [num, den]
    prpc                \* "loop" or "done"

prvars == <<corpus, damping_factor, n, range_i, sample, counts, pagerank, prpc>>

vars == <<msvars, ttt, prvars>>

\* Bounds of the model.
MaxCells == 6       \* a board has at most MaxCells cells
MaxSweeps == 8      \* cap on the iterations of the while loop that are followed
MaxPages == 3       \* pages of a corpus
MaxSamples == 4     \* the argument n of sample_pagerank
MaxApiSide == 3     \* height and width of a board driven through the public methods
MaxApiCells == 4    \* cells of such a board
MaxCount == 2       \* the count a caller passes to add_knowledge
MaxOrderSide == 3   \* height and width of a board whose sentences are met in any order
MaxOrderMines == 2  \* mines on such a board
MaxOrderMoves == 3  \* cells revealed on such a board

None == <<>>

(***************************************************************************)
(* Minesweeper: the game.                                                  *)
(***************************************************************************)
BoardCells == (0 .. height - 1) \X (0 .. width - 1)

\* Minesweeper.nearby_mines, lines 66-74: the cells its two loops count over.
nearby_cells(cell) ==
    { c \in (cell[1] - 1 .. cell[1] + 1) \X (cell[2] - 1 .. cell[2] + 1) :
        /\ c # cell
        /\ 0 <= c[1] /\ c[1] < height
        /\ 0 <= c[2] /\ c[2] < width }

\* Minesweeper.nearby_mines
nearby_mines(cell) == Cardinality({ c \in nearby_cells(cell) : c \in board })

(***************************************************************************)
(* Sentence                                                                *)
(***************************************************************************)
Sentence(cells, count) == [cells |-> cells, count |-> count]

known_mines(s) == IF Cardinality(s.cells) = s.count THEN s.cells ELSE {}

\* Variant: a sentence with count 1 is taken to hold only safe cells too.
known_safes_eager(s) == IF s.count <= 1 THEN s.cells ELSE {}

known_safes(s) == IF s.count = 0 THEN s.cells ELSE {}

\* Variant: the cell is removed but the count is kept.
Sentence_mark_mine_keep_count(s, cell) ==
    IF cell \in s.cells
    THEN [cells |-> s.cells \ {cell}, count |-> s.count]
    ELSE s

\* Variant: the count is decremented whether or not the cell is present.
Sentence_mark_mine_unguarded(s, cell) ==
    [cells |-> s.cells \ {cell}, count |-> s.count - 1]

Sentence_mark_mine(s, cell) ==
    IF cell \in s.cells
    THEN [cells |-> s.cells \ {cell}, count |-> s.count - 1]
    ELSE s

Sentence_mark_safe(s, cell) ==
    IF cell \in s.cells
    THEN [cells |-> s.cells \ {cell}, count |-> s.count]
    ELSE s

(***************************************************************************)
(* MinesweeperAI.  The operators below take and return the engine state    *)
(* st = [mines, safes, knowledge].                                         *)
(***************************************************************************)
\* Variant: the cell is added to mines but the sentences are not updated.
mark_mine_local(st, cell) ==
    [mines     |-> st.mines \cup {cell},
     safes     |-> st.safes,
     knowledge |-> st.knowledge]

mark_mine(st, cell) ==
    [mines     |-> st.mines \cup {cell},
     safes     |-> st.safes,
     knowledge |-> [i \in DOMAIN st.knowledge |->
                        Sentence_mark_mine(st.knowledge[i], cell)]]

\* Variant: lines 176-177 in force, a cell marked safe is taken out of mines.
mark_safe_exclusive(st, cell) ==
    [mines     |-> st.mines \ {cell},
     safes     |-> st.safes \cup {cell},
     knowledge |-> [i \in DOMAIN st.knowledge |->
                        Sentence_mark_safe(st.knowledge[i], cell)]]

\* Variant: the sentences are updated but the cell is not added to safes.
mark_safe_forget(st, cell) ==
    [mines     |-> st.mines,
     safes     |-> st.safes,
     knowledge |-> [i \in DOMAIN st.knowledge |->
                        Sentence_mark_safe(st.knowledge[i], cell)]]

mark_safe(st, cell) ==
    [mines     |-> st.mines,
     safes     |-> st.safes \cup {cell},
     knowledge |-> [i \in DOMAIN st.knowledge |->
                        Sentence_mark_safe(st.knowledge[i], cell)]]

\* MinesweeperAI.get_surroundings: the list it returns, branch by branch.
get_surroundings(cell) ==
    LET left_x == cell[2] - 1
        right_x == cell[2] + 1
        up_y == cell[1] - 1
        down_y == cell[1] + 1
        left_bound == (cell[2] = 0)
        right_bound == (cell[2] = width - 1)
        upper_bound == (cell[1] = 0)
        lower_bound == (cell[1] = height - 1)
    IN  IF left_bound THEN
            (IF upper_bound THEN << <<down_y, 0>>, <<down_y, 1>> >>
             ELSE IF lower_bound THEN << <<up_y, 0>>, <<up_y, 1>> >>
             ELSE << <<up_y, 0>>, <<up_y, 1>>, <<down_y, 0>>, <<down_y, 1>> >>)
            \o << <<cell[1], right_x>> >>
        ELSE IF right_bound THEN
            (IF upper_bound THEN << <<down_y, cell[2]>>, <<down_y, left_x>> >>
             ELSE IF lower_bound THEN << <<up_y, left_x>>, <<up_y, cell[2]>> >>
             ELSE << <<up_y, left_x>>, <<up_y, cell[2]>>,
                     <<down_y, left_x>>, <<down_y, cell[2]>> >>)
            \o << <<cell[1], left_x>> >>
        ELSE IF upper_bound THEN
            (IF left_bound THEN << <<down_y, right_x>>, <<cell[1], right_x>> >>
             ELSE IF right_bound THEN << <<down_y, left_x>>, <<cell[1], left_x>> >>
             ELSE << <<down_y, left_x>>, <<cell[1], left_x>>,
                     <<down_y, right_x>>, <<cell[1], right_x>> >>)
            \o << <<down_y, cell[2]>> >>
        ELSE IF lower_bound THEN
            (IF left_bound THEN << <<up_y, right_x>>, <<cell[1], right_x>> >>
             ELSE IF right_bound THEN << <<up_y, left_x>>, <<cell[1], left_x>> >>
             ELSE << <<up_y, left_x>>, <<cell[1], left_x>>,
                     <<up_y, right_x>>, <<cell[1], right_x>> >>)
            \o << <<up_y, cell[2]>> >>
        ELSE << <<cell[1], left_x>>, <<up_y, left_x>>, <<down_y, left_x>>,
                <<cell[1], right_x>>, <<up_y, right_x>>, <<down_y, right_x>>,
                <<up_y, cell[2]>>, <<down_y, cell[2]>> >>

\* add_knowledge, lines 285-296: the loop over the surroundings.  acc is
\* [sent, safes]; the count == 0 branch adds to self.safes directly.
RECURSIVE new_sentence(_, _, _, _, _)
new_sentence(surr, k, count, st_mines, acc) ==
    IF k > Len(surr) THEN acc
    ELSE LET c == surr[k]
             unknown == c \notin acc.safes /\ c \notin st_mines
         IN  IF count = 0
             THEN new_sentence(surr, k + 1, count, st_mines,
                    IF unknown
                    THEN [sent  |-> Sentence(acc.sent.cells \cup {c}, acc.sent.count),
                          safes |-> acc.safes \cup {c}]
                    ELSE acc)
             ELSE new_sentence(surr, k + 1, count, st_mines,
                    [sent  |-> Sentence(
                                 IF unknown THEN acc.sent.cells \cup {c}
                                            ELSE acc.sent.cells,
                                 IF c \in st_mines THEN acc.sent.count - 1
                                                   ELSE acc.sent.count),
                     safes |-> acc.safes])

\* add_knowledge, lines 282-298: up to and including knowledge.append(sent).
add_sentence(st, cell, count) ==
    LET st1 == mark_safe(st, cell)
        acc == new_sentence(get_surroundings(cell), 1, count, st1.mines,
                            [sent |-> Sentence({}, count), safes |-> st1.safes])
    IN  [mines     |-> st1.mines,
         safes     |-> acc.safes,
         knowledge |-> Append(st1.knowledge, acc.sent)]

\* lines 306-314: the union of known_safes() / known_mines() over knowledge.
collect_safes(kn) == UNION { known_safes(kn[i]) : i \in DOMAIN kn }

\* Variant: the known mines of the sentences are not collected.
collect_mines_none(kn) == {}

collect_mines(kn) == UNION { known_mines(kn[i]) : i \in DOMAIN kn }

\* Variant: no sentence is ever put on remove_empty.
is_removed_empty_never(s) == FALSE

\* line 313: the sentences put on remove_empty.
is_removed_empty(s) == s.cells = {} /\ s.count = 0

\* line 317: knowledge without the sentences equal to one on remove_empty.
remove_empty(kn) == SelectSeq(kn, LAMBDA s : ~ is_removed_empty(s))

\* lines 320-322 and 324-326: mark every collected cell.
RECURSIVE mark_all_safe(_, _)
mark_all_safe(st, cs) ==
    IF cs = {} THEN st
    ELSE LET c == CHOOSE x \in cs : TRUE
         IN  mark_all_safe(mark_safe(st, c), cs \ {c})

RECURSIVE mark_all_mine(_, _)
mark_all_mine(st, cs) ==
    IF cs = {} THEN st
    ELSE LET c == CHOOSE x \in cs : TRUE
         IN  mark_all_mine(mark_mine(st, c), cs \ {c})

\* list.remove(x): drop the first element equal to x.
RECURSIVE list_remove(_, _)
list_remove(kn, x) ==
    IF kn = <<>> THEN <<>>
    ELSE IF Head(kn) = x THEN Tail(kn)
    ELSE <<Head(kn)>> \o list_remove(Tail(kn), x)

\* Variant: the derived sentence keeps the count of s2.
resolve_keep_count(s1, s2) == Sentence(s2.cells \ s1.cells, s2.count)

\* Variant: the counts are subtracted the other way round.
resolve_swapped(s1, s2) == Sentence(s2.cells \ s1.cells, s1.count - s2.count)

\* line 334 onwards: the sentence derived from s1.cells being a subset of s2.cells.
resolve(s1, s2) == Sentence(s2.cells \ s1.cells, s2.count - s1.count)

\* lines 330-341: "for s2 in self.knowledge" for one s1.  The list iterator
\* is an index into the list as it is at each step; the body appends to the
\* list and removes from it.  acc is [kn, changed].
RECURSIVE inner_loop(_, _, _)
inner_loop(acc, s1, j) ==
    IF j > Len(acc.kn) THEN acc
    ELSE LET s2 == acc.kn[j]
         IN  IF s1 = s2 THEN inner_loop(acc, s1, j + 1)
             ELSE IF s1.cells \subseteq s2.cells
             THEN inner_loop([kn |-> list_remove(Append(acc.kn, resolve(s1, s2)), s2),
                              changed |-> TRUE], s1, j + 1)
             ELSE inner_loop(acc, s1, j + 1)

\* Variant: the sentences are never combined.
combine_skip(acc, i) == acc

\* lines 329-341: "for s1 in self.knowledge".
RECURSIVE combine(_, _)
combine(acc, i) ==
    IF i > Len(acc.kn) THEN acc
    ELSE combine(inner_loop(acc, acc.kn[i], 1), i + 1)

\* Variant: knowledge_changed is not set when sentences are combined.
sweep_marks_only(st) ==
    LET new_safes == collect_safes(st.knowledge)
        new_mines == collect_mines(st.knowledge)
        st1 == [st EXCEPT !.knowledge = remove_empty(st.knowledge)]
        st2 == mark_all_safe(st1, new_safes)
        st3 == mark_all_mine(st2, new_mines)
        c == combine([kn |-> st3.knowledge, changed |-> FALSE], 1)
    IN  [mines |-> st3.mines, safes |-> st3.safes, knowledge |-> c.kn,
         changed |-> new_safes # {} \/ new_mines # {}]

\* lines 304-341: one iteration of "while knowledge_changed".
sweep(st) ==
    LET new_safes == collect_safes(st.knowledge)
        new_mines == collect_mines(st.knowledge)
        st1 == [st EXCEPT !.knowledge = remove_empty(st.knowledge)]
        st2 == mark_all_safe(st1, new_safes)
        st3 == mark_all_mine(st2, new_mines)
        c == combine([kn |-> st3.knowledge,
                      changed |-> new_safes # {} \/ new_mines # {}], 1)
    IN  [mines |-> st3.mines, safes |-> st3.safes, knowledge |-> c.kn,
         changed |-> c.changed]

\* Variant: the cell is built as (x, y) instead of (y, x).
RECURSIVE scan_cells_swapped(_, _)
scan_cells_swapped(x, y) ==
    IF x >= width THEN None
    ELSE IF y >= height THEN scan_cells_swapped(x + 1, 0)
    ELSE IF <<x, y>> \notin moves_made /\ <<x, y>> \notin mines THEN <<x, y>>
    ELSE scan_cells_swapped(x, y + 1)

\* make_random_move: the first cell in the order of the two for loops.
RECURSIVE scan_cells(_, _)
scan_cells(x, y) ==
    IF x >= width THEN None
    ELSE IF y >= height THEN scan_cells(x + 1, 0)
    ELSE IF <<y, x>> \notin moves_made /\ <<y, x>> \notin mines THEN <<y, x>>
    ELSE scan_cells(x, y + 1)

(***************************************************************************)
(* Tic-tac-toe.  board[i][j] of the Python code is b[i + 1][j + 1].        *)
(***************************************************************************)
X == "X"
O == "O"
EMPTY == "None"

initial_state == << <<EMPTY, EMPTY, EMPTY>>,
                    <<EMPTY, EMPTY, EMPTY>>,
                    <<EMPTY, EMPTY, EMPTY>> >>

\* row.count(v) summed over the rows
count_of(b, v) == Cardinality({ sq \in (1 .. 3) \X (1 .. 3) : b[sq[1]][sq[2]] = v })

player(b) == IF count_of(b, X) > count_of(b, O) THEN O ELSE X

\* len(set(...)) == 1 for three squares
all_same(a, b, c) == a = b /\ b = c

\* winner, lines 91-103: the while loop over the columns, from column col.
RECURSIVE winner_columns(_, _)
winner_columns(b, col) ==
    IF col > 3 THEN EMPTY
    ELSE IF all_same(b[1][col], b[2][col], b[3][col]) THEN b[1][col]
    ELSE winner_columns(b, col + 1)

\* winner, lines 76-78: the for loop over the rows, from row r.
RECURSIVE winner_rows(_, _)
winner_rows(b, r) ==
    IF r > 3 THEN EMPTY
    ELSE IF all_same(b[r][1], b[r][2], b[r][3]) /\ b[r][1] # EMPTY THEN b[r][1]
    ELSE winner_rows(b, r + 1)

winner(b) ==
    IF winner_rows(b, 1) # EMPTY THEN winner_rows(b, 1)
    ELSE IF all_same(b[1][1], b[2][2], b[3][3]) THEN b[1][1]
    ELSE IF all_same(b[3][1], b[2][2], b[1][3]) THEN b[3][1]
    ELSE winner_columns(b, 1)

terminal(b) ==
    IF winner(b) # EMPTY THEN TRUE
    ELSE count_of(b, EMPTY) = 0

actions(b) ==
    IF terminal(b) THEN {}
    ELSE { sq \in (0 .. 2) \X (0 .. 2) : b[sq[1] + 1][sq[2] + 1] = EMPTY }

\* result(board, action) for an action in actions(board)
result(b, action) ==
    [b EXCEPT ![action[1] + 1][action[2] + 1] = player(b)]

\* A legal move: result() raises for an action that is not in actions(board).
play ==
    /\ \E action \in actions(ttt) : ttt' = result(ttt, action)
    /\ UNCHANGED <<msvars, prvars>>

(***************************************************************************)
(* PageRank by sampling.  Pages are 1 .. np; probabilities are kept as     *)
(* integer weights over a common denominator.                              *)
(***************************************************************************)
DAMPING == 85

Pages == DOMAIN corpus

\* transition_model: the weight of page p in the distribution for page,
\* times 100 * len(corpus) * len(links) (times len(corpus) without links).
transition_model(page, p) ==
    LET links == corpus[page]
    IN  IF Cardinality(links) = 0 THEN 1
        ELSE (100 - damping_factor) * Cardinality(links)
             + (IF p \in links THEN damping_factor * Cardinality(Pages) ELSE 0)

RECURSIVE total(_, _)
total(f, ps) ==
    IF ps = {} THEN 0
    ELSE LET p == CHOOSE x \in ps : TRUE
         IN  f[p] + total(f, ps \ {p})

\* lines 91-96: one iteration of "for i in range(1, n)".
sample_pagerank_step ==
    /\ prpc = "loop"
    /\ range_i < n
    /\ counts' = [counts EXCEPT ![sample] = @ + 1]
    /\ \E p \in Pages :
          /\ transition_model(sample, p) > 0
          /\ sample' = p
    /\ range_i' = range_i + 1
    /\ UNCHANGED <<corpus, damping_factor, n, pagerank, prpc>>
    /\ UNCHANGED <<msvars, ttt>>

\* lines 98-100: the loop is over; counts[p] / n for every page.
sample_pagerank_return ==
    /\ prpc = "loop"
    /\ range_i >= n
    /\ pagerank' = [p \in Pages |-> [num |-> counts[p], den |-> n]]
    /\ prpc' = "done"
    /\ UNCHANGED <<corpus, damping_factor, n, range_i, sample, counts>>
    /\ UNCHANGED <<msvars, ttt>>

(***************************************************************************)
(* The engine as a state machine.  A legal run: the game reports, for a    *)
(* cell that holds no mine and was not played, its true count.             *)
(***************************************************************************)
engine == [mines |-> mines, safes |-> safes, knowledge |-> knowledge]

\* A new game and a new MinesweeperAI (the __init__ methods); the other two
\* programs are not running.
Init ==
    /\ height \in 1 .. MaxCells
    /\ width \in 1 .. MaxCells
    /\ height * width <= MaxCells
    /\ board \in SUBSET ((0 .. height - 1) \X (0 .. width - 1))
    /\ moves_made = {}
    /\ mines = {}
    /\ safes = {}
    /\ knowledge = <<>>
    /\ pc = "idle"
    /\ call = None
    /\ pass_start = <<>>
    /\ sweeps = 0
    /\ last = "init"
    /\ ret = None
    /\ ttt = initial_state
    /\ corpus = <<{}>> /\ damping_factor = DAMPING /\ n = 1 /\ range_i = 1
    /\ sample = 1 /\ counts = <<0>> /\ pagerank = None /\ prpc = "done"

\* add_knowledge(cell, count), lines 282-302.
add_knowledge ==
    /\ pc = "idle"
    /\ \E cell \in BoardCells \ (moves_made \cup board) :
          LET st == add_sentence(engine, cell, nearby_mines(cell))
          IN  /\ moves_made' = moves_made \cup {cell}
              /\ mines' = st.mines
              /\ safes' = st.safes
              /\ knowledge' = st.knowledge
              /\ pass_start' = st.knowledge
              /\ call' = [cell |-> cell, count |-> nearby_mines(cell)]
    /\ pc' = "loop"
    /\ sweeps' = 0
    /\ last' = "add_knowledge"
    /\ ret' = None
    /\ UNCHANGED <<height, width, board>>
    /\ UNCHANGED <<ttt, prvars>>

\* One iteration of the while loop of add_knowledge, and the return when
\* knowledge_changed stayed False.
while_knowledge_changed ==
    /\ pc = "loop"
    /\ sweeps < MaxSweeps
    /\ sweeps' = sweeps + 1
    /\ LET st == sweep(engine)
       IN  /\ mines' = st.mines
           /\ safes' = st.safes
           /\ knowledge' = st.knowledge
           /\ pc' = IF st.changed THEN "loop" ELSE "idle"
    /\ UNCHANGED <<height, width, board, moves_made, call, pass_start, last, ret>>
    /\ UNCHANGED <<ttt, prvars>>

\* Variant: the check against moves_made is left out.
make_safe_move_any ==
    /\ pc = "idle"
    /\ \/ \E c \in safes : ret' = c
       \/ safes = {} /\ ret' = None
    /\ last' = "make_safe_move"
    /\ UNCHANGED <<height, width, board, moves_made, mines, safes, knowledge,
                   pc, call, pass_start, sweeps>>
    /\ UNCHANGED <<ttt, prvars>>

\* make_safe_move: the first cell of self.safes, in the set's iteration
\* order, that is not in moves_made; None when the loop falls through.
make_safe_move ==
    /\ pc = "idle"
    /\ \/ \E c \in safes \ moves_made : ret' = c
       \/ safes \ moves_made = {} /\ ret' = None
    /\ last' = "make_safe_move"
    /\ UNCHANGED <<height, width, board, moves_made, mines, safes, knowledge,
                   pc, call, pass_start, sweeps>>
    /\ UNCHANGED <<ttt, prvars>>

make_random_move ==
    /\ pc = "idle"
    /\ ret' = scan_cells(0, 0)
    /\ last' = "make_random_move"
    /\ UNCHANGED <<height, width, board, moves_made, mines, safes, knowledge,
                   pc, call, pass_start, sweeps>>
    /\ UNCHANGED <<ttt, prvars>>

Next ==
    \/ add_knowledge
    \/ while_knowledge_changed
    \/ make_safe_move
    \/ make_random_move

Spec == Init /\ [][Next]_vars

\* The tic-tac-toe game from initial_state(); the other two programs are not
\* running.
InitTTT ==
    /\ ttt = initial_state
    /\ height = 1 /\ width = 1 /\ board = {}
    /\ moves_made = {} /\ mines = {} /\ safes = {} /\ knowledge = <<>>
    /\ pc = "idle" /\ call = None /\ pass_start = <<>> /\ sweeps = 0
    /\ last = "init" /\ ret = None
    /\ corpus = <<{}>> /\ damping_factor = DAMPING /\ n = 1 /\ range_i = 1
    /\ sample = 1 /\ counts = <<0>> /\ pagerank = None /\ prpc = "done"

NextTTT == play

SpecTTT == InitTTT /\ [][NextTTT]_vars

\* A call of sample_pagerank, lines 87-89, for a corpus as crawl() builds it
\* (no page links to itself); the other two programs are not running.
InitPR ==
    /\ \E np \in 1 .. MaxPages :
          corpus \in { c \in [1 .. np -> SUBSET (1 .. np)] :
                         \A p \in 1 .. np : p \notin c[p] }
    /\ damping_factor \in {0, DAMPING, 100}
    /\ n \in 1 .. MaxSamples
    /\ sample \in DOMAIN corpus
    /\ counts = [p \in DOMAIN corpus |-> 0]
    /\ range_i = 1
    /\ pagerank = None
    /\ prpc = "loop"
    /\ ttt = initial_state
    /\ height = 1 /\ width = 1 /\ board = {}
    /\ moves_made = {} /\ mines = {} /\ safes = {} /\ knowledge = <<>>
    /\ pc = "idle" /\ call = None /\ pass_start = <<>> /\ sweeps = 0
    /\ last = "init" /\ ret = None

NextPR ==
    \/ sample_pagerank_step
    \/ sample_pagerank_return

SpecPR == InitPR /\ [][NextPR]_vars

\* A MinesweeperAI driven through its public methods by an arbitrary caller:
\* no Minesweeper board stands behind the counts.
InitAPI ==
    /\ height \in 1 .. MaxApiSide
    /\ width \in 1 .. MaxApiSide
    /\ height * width <= MaxApiCells
    /\ board = {}
    /\ moves_made = {}
    /\ mines = {}
    /\ safes = {}
    /\ knowledge = <<>>
    /\ pc = "idle"
    /\ call = None
    /\ pass_start = <<>>
    /\ sweeps = 0
    /\ last = "init"
    /\ ret = None
    /\ ttt = initial_state
    /\ corpus = <<{}>> /\ damping_factor = DAMPING /\ n = 1 /\ range_i = 1
    /\ sample = 1 /\ counts = <<0>> /\ pagerank = None /\ prpc = "done"

\* add_knowledge(cell, count), lines 282-302, with whatever count the caller
\* reports for a cell it has not reported before.
add_knowledge_reported ==
    /\ pc = "idle"
    /\ \E cell \in BoardCells \ moves_made, count \in 0 .. MaxCount :
          LET st == add_sentence(engine, cell, count)
          IN  /\ moves_made' = moves_made \cup {cell}
              /\ mines' = st.mines
              /\ safes' = st.safes
              /\ knowledge' = st.knowledge
              /\ pass_start' = st.knowledge
              /\ call' = [cell |-> cell, count |-> count]
    /\ pc' = "loop"
    /\ sweeps' = 0
    /\ last' = "add_knowledge"
    /\ ret' = None
    /\ UNCHANGED <<height, width, board>>
    /\ UNCHANGED <<ttt, prvars>>

\* A call of MinesweeperAI.mark_mine(cell), lines 161-168.
call_mark_mine ==
    /\ pc = "idle"
    /\ \E cell \in BoardCells :
          LET st == mark_mine(engine, cell)
          IN  /\ mines' = st.mines
              /\ safes' = st.safes
              /\ knowledge' = st.knowledge
              /\ call' = [cell |-> cell]
    /\ last' = "mark_mine"
    /\ ret' = None
    /\ UNCHANGED <<height, width, board, moves_made, pc, pass_start, sweeps>>
    /\ UNCHANGED <<ttt, prvars>>

\* A call of MinesweeperAI.mark_safe(cell), lines 170-179.
call_mark_safe ==
    /\ pc = "idle"
    /\ \E cell \in BoardCells :
          LET st == mark_safe(engine, cell)
          IN  /\ mines' = st.mines
              /\ safes' = st.safes
              /\ knowledge' = st.knowledge
              /\ call' = [cell |-> cell]
    /\ last' = "mark_safe"
    /\ ret' = None
    /\ UNCHANGED <<height, width, board, moves_made, pc, pass_start, sweeps>>
    /\ UNCHANGED <<ttt, prvars>>

NextAPI ==
    \/ add_knowledge_reported
    \/ call_mark_mine
    \/ call_mark_safe
    \/ while_knowledge_changed
    \/ make_safe_move
    \/ make_random_move

SpecAPI == InitAPI /\ [][NextAPI]_vars

\* The orders in which the sentences of kn can stand in the list: every
\* sequence that holds each index of kn once.
RECURSIVE orders_of(_)
orders_of(idx) ==
    IF idx = {} THEN { <<>> }
    ELSE UNION { { <<i>> \o o : o \in orders_of(idx \ {i}) } : i \in idx }

reordered(kn) ==
    { [k \in DOMAIN kn |-> kn[o[k]]] : o \in orders_of(DOMAIN kn) }

\* lines 303-341: the while loop of add_knowledge run until knowledge_changed
\* stays False, following at most k iterations.
RECURSIVE while_loop(_, _)
while_loop(st, k) ==
    LET s == sweep(st)
    IN  IF s.changed /\ k > 1
        THEN while_loop([mines |-> s.mines, safes |-> s.safes,
                         knowledge |-> s.knowledge], k - 1)
        ELSE s

\* add_knowledge(cell, count), lines 282-302, as in a legal run; the engine
\* state the deduction pass starts from is kept with the call.
add_knowledge_pass ==
    /\ pc = "idle"
    /\ Cardinality(moves_made) < MaxOrderMoves
    /\ \E cell \in BoardCells \ (moves_made \cup board) :
          LET st == add_sentence(engine, cell, nearby_mines(cell))
          IN  /\ moves_made' = moves_made \cup {cell}
              /\ mines' = st.mines
              /\ safes' = st.safes
              /\ knowledge' = st.knowledge
              /\ pass_start' = st.knowledge
              /\ call' = [cell |-> cell, count |-> nearby_mines(cell),
                          engine |-> st]
    /\ pc' = "loop"
    /\ sweeps' = 0
    /\ last' = "add_knowledge"
    /\ ret' = None
    /\ UNCHANGED <<height, width, board>>
    /\ UNCHANGED <<ttt, prvars>>

\* One iteration of the while loop in which the two for loops of lines
\* 329-330 meet the sentences in an arbitrary order.
while_knowledge_changed_any_order ==
    /\ pc = "loop"
    /\ sweeps < MaxSweeps
    /\ sweeps' = sweeps + 1
    /\ \E kn \in reordered(knowledge) :
          LET st == sweep([engine EXCEPT !.knowledge = kn])
          IN  /\ mines' = st.mines
              /\ safes' = st.safes
              /\ knowledge' = st.knowledge
              /\ pc' = IF st.changed THEN "loop" ELSE "idle"
    /\ UNCHANGED <<height, width, board, moves_made, call, pass_start, last, ret>>
    /\ UNCHANGED <<ttt, prvars>>

InitOrder ==
    /\ height \in 1 .. MaxOrderSide
    /\ width \in 1 .. MaxOrderSide
    /\ board \in SUBSET ((0 .. height - 1) \X (0 .. width - 1))
    /\ Cardinality(board) <= MaxOrderMines
    /\ moves_made = {}
    /\ mines = {}
    /\ safes = {}
    /\ knowledge = <<>>
    /\ pc = "idle"
    /\ call = None
    /\ pass_start = <<>>
    /\ sweeps = 0
    /\ last = "init"
    /\ ret = None
    /\ ttt = initial_state
    /\ corpus = <<{}>> /\ damping_factor = DAMPING /\ n = 1 /\ range_i = 1
    /\ sample = 1 /\ counts = <<0>> /\ pagerank = None /\ prpc = "done"

NextOrder ==
    \/ add_knowledge_pass
    \/ while_knowledge_changed_any_order

SpecOrder == InitOrder /\ [][NextOrder]_vars

(***************************************************************************)
(* Properties of the engine.                                               *)
(***************************************************************************)
Range(f) == { f[i] : i \in DOMAIN f }

returned == pc = "idle" /\ last = "add_knowledge"

\* C1 Soundness: in every state of a legal run, inside or between calls, no
\* cell is both in mines and in safes.
Soundness == mines \cap safes = {}

Soundness_witness ==
    /\ returned
    /\ mines # {}
    /\ Cardinality(moves_made) >= 2
    /\ Cardinality(safes) > Cardinality(moves_made)

\* C2 Termination: the while loop of add_knowledge never runs on: in every
\* call it exits, after fewer than MaxSweeps iterations.  (An iteration is
\* always possible while pc = "loop" and sweeps < MaxSweeps, and each one
\* counts in sweeps, so a loop that did not exit would reach the cap.)
Termination == pc = "loop" => sweeps < MaxSweeps

Termination_witness == returned /\ sweeps >= 4

\* C3 Sentence invariant: whenever add_knowledge has returned, every
\* sentence in knowledge has 0 <= count <= |cells|.
SentenceInvariant ==
    pc = "idle" =>
        \A i \in DOMAIN knowledge :
            /\ 0 <= knowledge[i].count
            /\ knowledge[i].count <= Cardinality(knowledge[i].cells)

SentenceInvariant_witness ==
    /\ returned
    /\ \E i \in DOMAIN knowledge :
          /\ 0 < knowledge[i].count
          /\ knowledge[i].count < Cardinality(knowledge[i].cells)
    /\ mines # {}

\* The pairs (A, B) of sentences held when the while loop was entered with
\* A.cells a strict subset of B.cells.
subset_pairs ==
    { p \in Range(pass_start) \X Range(pass_start) :
        p[1].cells \subseteq p[2].cells /\ p[1].cells # p[2].cells }

DirectResolution ==
    pc = "idle" =>
        \A s \in Range(pass_start) :
            /\ s.count = 0 => s.cells \subseteq safes
            /\ s.count = Cardinality(s.cells) => s.cells \subseteq mines

\* The new sentence had count 0 once the known mines were subtracted from a
\* reported count of 1 or more, so that its cells were not yet in safes.
DirectResolution_witness ==
    /\ returned
    /\ call.count > 0
    /\ pass_start[Len(pass_start)].count = 0
    /\ pass_start[Len(pass_start)].cells # {}

\* C6 Neighbour enumeration: on every board, for every cell of it,
\* get_surroundings lists, without duplicates, exactly the cells that
\* nearby_mines counts over: the Moore neighbourhood clipped to the board.
NeighbourEnumeration ==
    \A cell \in BoardCells :
        /\ Range(get_surroundings(cell)) = nearby_cells(cell)
        /\ Len(get_surroundings(cell)) = Cardinality(Range(get_surroundings(cell)))

\* C7 make_safe_move returns a cell of safes that is not in moves_made, and
\* None exactly when there is no such cell.
SafeMoveContract ==
    last = "make_safe_move" =>
        /\ ret # None => ret \in safes \ moves_made
        /\ ret = None <=> safes \ moves_made = {}

SafeMoveContract_witness ==
    /\ last = "make_safe_move"
    /\ ret # None
    /\ moves_made # {}
    /\ Cardinality(safes \ moves_made) >= 2

\* C8 make_random_move returns a cell of the board that is neither in
\* moves_made nor in mines, and None exactly when there is no such cell.
RandomMoveContract ==
    last = "make_random_move" =>
        /\ ret # None => ret \in BoardCells \ (moves_made \cup mines)
        /\ ret = None <=> BoardCells \ (moves_made \cup mines) = {}

RandomMoveContract_witness ==
    /\ last = "make_random_move"
    /\ ret # None
    /\ mines # {}
    /\ <<0, 0>> \in moves_made \cup mines

(***************************************************************************)
(* Properties of winner and of sample_pagerank.                            *)
(***************************************************************************)
Lines ==
    { {<<r, 1>>, <<r, 2>>, <<r, 3>>} : r \in 1 .. 3 }
    \cup { {<<1, c>>, <<2, c>>, <<3, c>>} : c \in 1 .. 3 }
    \cup { {<<1, 1>>, <<2, 2>>, <<3, 3>>}, {<<3, 1>>, <<2, 2>>, <<1, 3>>} }

has_line(b, p) == \E l \in Lines : \A sq \in l : b[sq[1]][sq[2]] = p

\* C9 winner: on every board reached by legal moves, winner returns X when X
\* holds a whole row, column or diagonal, O when O does, and None only when
\* neither does.
WinnerOfLines ==
    /\ has_line(ttt, X) => winner(ttt) = X
    /\ has_line(ttt, O) => winner(ttt) = O
    /\ winner(ttt) = EMPTY => ~ has_line(ttt, X) /\ ~ has_line(ttt, O)

\* C10 sample_pagerank: when it returns, the visit counts total n, that is,
\* the returned values counts[p] / n sum to 1.
SampleCountsTotal ==
    prpc = "done" =>
        /\ total(counts, Pages) = n
        /\ total([p \in Pages |-> pagerank[p].num], Pages) = n
        /\ \A p \in Pages : pagerank[p].den = n

\* C11 Full-resolution scenario: on the board of 1 row and 3 columns whose
\* only mine is at (0, 2), after the single call add_knowledge((0, 0), 0) on
\* a fresh engine, (0, 0) and (0, 1) are in safes and (0, 2) is in neither
\* safes nor mines.
FullResolution ==
    (/\ height = 1 /\ width = 3 /\ board = {<<0, 2>>}
     /\ moves_made = {<<0, 0>>} /\ pc = "idle")
    => /\ <<0, 0>> \in safes
       /\ <<0, 1>> \in safes
       /\ <<0, 2>> \notin safes \cup mines

FullResolution_witness ==
    /\ height = 1 /\ width = 3 /\ board = {<<0, 2>>}
    /\ moves_made = {<<0, 0>>} /\ returned
    /\ call = [cell |-> <<0, 0>>, count |-> 0]
    /\ {<<0, 0>>, <<0, 1>>} \subseteq safes

\* C12 make_random_move chooses among the eligible cells: between calls,
\* every board cell that is neither in moves_made nor in mines is a possible
\* return value of the call.
RandomMoveAnyEligible ==
    pc = "idle" =>
        \A c \in BoardCells \ (moves_made \cup mines) :
            ENABLED (make_random_move /\ ret' = c)

\* C13 Idempotence of marking: in the state a call mark_safe(c) or
\* mark_mine(c) has left, calling it again with the same cell changes neither
\* mines, safes nor any sentence (moves_made is not touched by either).
MarkIdempotent ==
    /\ last = "mark_safe" => mark_safe(engine, call.cell) = engine
    /\ last = "mark_mine" => mark_mine(engine, call.cell) = engine

\* mark_mine((0,1)) has taken the cell out of the sentence built by
\* add_knowledge((0,0), 1) on the 2x2 board and lowered its count.
MarkIdempotent_witness ==
    /\ last = "mark_mine"
    /\ call.cell = <<0, 1>>
    /\ mines = {<<0, 1>>}
    /\ knowledge = << Sentence({<<1, 0>>, <<1, 1>>}, 0) >>

\* C14 Monotonicity: no step of any call takes a cell out of mines, safes or
\* moves_made.
Monotonicity ==
    [][/\ mines \subseteq mines'
       /\ safes \subseteq safes'
       /\ moves_made \subseteq moves_made']_vars

\* mark_safe has been called on a cell that was already in mines, after
\* moves were made: all three sets are populated and the cell is still a mine.
Monotonicity_witness ==
    /\ last = "mark_safe"
    /\ call.cell \in mines
    /\ call.cell \in safes
    /\ moves_made # {}

\* C15 Sentence construction: the sentence add_knowledge(cell, count)
\* appends has as cells the neighbours of cell that are in neither safes nor
\* mines at the time of the call, and as count the reported count minus the
\* number of neighbours of cell in mines; it is appended even when empty.
SentenceConstruction ==
    [][(pc = "idle" /\ pc' = "loop") =>
          LET cell == call'.cell
              s == knowledge'[Len(knowledge')]
          IN  /\ Len(knowledge') = Len(knowledge) + 1
              /\ s.cells = nearby_cells(cell) \ (safes \cup mines)
              /\ s.count = call'.count - Cardinality(nearby_cells(cell) \cap mines)]_vars

\* C16 No stale sentences: whenever add_knowledge, mark_mine or mark_safe
\* has returned, no sentence of knowledge holds a cell of mines or safes.
NoStaleSentences ==
    pc = "idle" =>
        \A s \in Range(knowledge) : s.cells \cap (mines \cup safes) = {}

\* add_knowledge with count 0 put cells into safes directly that an older
\* sentence still held when the deduction pass began; it has returned and
\* sentences remain.
NoStaleSentences_witness ==
    /\ returned
    /\ call.count = 0
    /\ Len(pass_start) >= 2
    /\ \E i \in 1 .. Len(pass_start) - 1 :
          /\ pass_start[i].count # 0
          /\ pass_start[i].cells \cap pass_start[Len(pass_start)].cells # {}
    /\ \E s \in Range(knowledge) : s.cells # {}

\* C17 Fixed point on return: when add_knowledge has returned, no sentence
\* has an empty cell set, none has count 0 or count equal to its number of
\* cells, and no two unequal sentences have cells one a subset of the other.
FixedPointOnReturn ==
    pc = "idle" =>
        /\ \A s \in Range(knowledge) :
              /\ s.cells # {}
              /\ s.count # 0
              /\ s.count # Cardinality(s.cells)
        /\ \A s1, s2 \in Range(knowledge) :
              s1 # s2 => ~ (s1.cells \subseteq s2.cells)

\* A subset resolution took place in the call and sentences remain.
FixedPointOnReturn_witness ==
    /\ returned
    /\ Len(knowledge) >= 2
    /\ \E p \in subset_pairs : p[1].cells # {}

\* C18 Cleanup regardless of count: the cleanup step of a sweep leaves no
\* sentence with an empty cell set, whatever its count, and no such sentence
\* is in knowledge when add_knowledge has returned.
CleanupRegardlessOfCount ==
    /\ pc = "loop" => \A s \in Range(remove_empty(knowledge)) : s.cells # {}
    /\ returned => \A s \in Range(knowledge) : s.cells # {}

\* C20 Invariant breach is surfaced: add_knowledge does not return normally
\* with a sentence in knowledge whose count is negative or exceeds its
\* number of cells.
BreachSurfaced ==
    returned =>
        \A s \in Range(knowledge) :
            ~ (s.count < 0 \/ s.count > Cardinality(s.cells))

BoardAgreement ==
    /\ mines \subseteq board
    /\ safes \cap board = {}
    /\ \A s \in Range(knowledge) : s.count = Cardinality(s.cells \cap board)
    /\ (last = "make_safe_move" /\ ret # None) => ret \notin board

\* make_safe_move has returned a cell of the board after a mine of the board
\* was deduced from the sentences of two reveals.
BoardAgreement_witness ==
    /\ last = "make_safe_move"
    /\ ret \in BoardCells
    /\ mines # {}
    /\ Cardinality(moves_made) >= 2

====
